---- MODULE Spec2Model ----
(***************************************************************************)
(* A model of bevy_ui_mod_alerts (src/src/lib.rs): the alert entities, the *)
(* per-marker UI root, the configuration resources and the six systems     *)
(* that AlertsPlugin chains in PostUpdate, together with the piped systems *)
(* `alert` / `custom_alert` that enqueue messages in Update.               *)
(*                                                                         *)
(* Host semantics (Bevy 0.13, the version whose API examples/alerts.rs     *)
(* uses): a system mutates components it borrows mutably at once, while    *)
(* everything it does through `Commands` is queued and applied at the next *)
(* synchronisation point.  A chain of systems gets a synchronisation point *)
(* after every system that owns `Commands`; the chains of two plugin       *)
(* instances share these points, so the k-th systems of both chains run    *)
(* (in either order) between the same two points.                          *)
(*                                                                         *)
(* Durations are in milliseconds, offsets in percent, completions and the  *)
(* easing value in thousandths.                                            *)
(***************************************************************************)
EXTENDS Integers, Sequences, FiniteSets, TLC

VARIABLES
    pc,          \* the window of the frame that runs next
    ran,         \* plugin instances whose system already ran in this window
    delta,       \* Time::delta() of the current frame
    alerts,      \* live alert entities: id -> components
    nextId,      \* number of alert entities spawned so far, plus one
    roots,       \* marker -> number of AlertUiRoot entities carrying it
    cmds,        \* queued commands, not yet applied
    lifetime,    \* marker -> AlertLifetime<M>.lifetime
    max_alerts,  \* marker -> MaxAlerts<M>.max
    plugins,     \* markers for which an AlertsPlugin<M> is installed
    panicked,    \* a system or a command panicked: the app is gone
    despawned,   \* history: the alert entities despawned in this frame
    faded,       \* history: marker -> number of alerts despawned by tick_transitions
    rootLog,     \* history: marker -> number of roots spawned so far
    called,      \* history: the arguments of the latest alert call of this Update
    enq          \* history: marker -> number of messages enqueued so far

vars == <<pc, ran, delta, alerts, nextId, roots, cmds, lifetime, max_alerts,
          plugins, panicked, despawned, faded, rootLog, called, enq>>

----------------------------------------------------------------------------
(* Bounds of the model. *)

MaxEntities == 3      \* alert entities spawned in one behaviour
AgeCap == 750         \* AlertTimer readings saturate here (above every lifetime)

Deltas == {250, 500}          \* frame deltas
FineDeltas == {125, 250}      \* frame deltas of a faster frame rate
Lifetimes == {0, 250, 500}    \* configured AlertLifetime<M>
Caps == {0, 1, 2}             \* configured MaxAlerts<M>
Batches ==                    \* the vectors of messages handed to alert
    {<<>>, <<"m1">>, <<"m1", "m2">>}

(* Program constants and vocabulary. *)

DURATION == 500       \* TransitionTimer::DURATION
NoVal == -1           \* an absent component (Option::None)

Markers == {"AlertMarker", "MyAlert"}
Interactions == {"None", "Pressed"}   \* the readings of Interaction drawn

NoCall == [msgs |-> <<>>, marker |-> "None"]

Min(a, b) == IF a < b THEN a ELSE b
Max(a, b) == IF a > b THEN a ELSE b

RECURSIVE SetToSeq(_)
SetToSeq(S) ==
    IF S = {} THEN <<>>
    ELSE LET x == CHOOSE y \in S : \A z \in S : y <= z
         IN <<x>> \o SetToSeq(S \ {x})

----------------------------------------------------------------------------
(* Components and queries. *)

\* Alert::bundle(message) plus the marker: a pending alert.
AlertBundle(message, m) ==
    [ marker      |-> m,
      message     |-> message,
      age         |-> 0,          \* AlertTimer.time_alive
      ui          |-> FALSE,      \* AlertUi
      trans       |-> "None",     \* AlertTransition
      timer       |-> NoVal,      \* TransitionTimer.time_alive
      left        |-> NoVal,      \* Style.left, percent
      parent      |-> FALSE,      \* child of the marker's root
      interaction |-> "None",     \* Interaction of its dismiss button
      bg          |-> "None",     \* BackgroundColor of its dismiss button
      applied     |-> 0,          \* history: delta ticked since it entered FadeOut
      pressed     |-> FALSE,      \* history: a dismiss press was handled
      sinceFirst  |-> 0,          \* history: delta ticked since the first such
                                  \* press (readings saturate at DURATION)
      sinceLast   |-> 0 ]         \* history: delta ticked since the latest one

\* Mutant: the query is not filtered by With<AlertUi>.
AnyAlerts(a, m) == {e \in DOMAIN a : a[e].marker = m}

\* Query<.., (With<M>, With<AlertUi>)>
SpawnedAlerts(a, m) == {e \in DOMAIN a : a[e].marker = m /\ a[e].ui}

\* Query<(Entity, &Alert), (With<M>, Without<AlertUi>)>
AlertsToSpawn(a, m) == {e \in DOMAIN a : a[e].marker = m /\ ~a[e].ui}

\* Query<(Entity, &mut Style, &AlertTransition, Option<&mut TransitionTimer>), With<AlertUi>>
AlertNodes(a) == {e \in DOMAIN a : a[e].ui /\ a[e].trans # "None"}

\* Query<(&Interaction, &DismissButton)>
DismissButtons(a) == {e \in DOMAIN a : a[e].ui}

----------------------------------------------------------------------------
(* TransitionTimer and the easing curve. *)

\* Stopwatch::tick on AlertTimer (readings saturate at AgeCap in the model).
TickAge(age, d) == Min(age + d, AgeCap)

\* TransitionTimer::get_completion, in thousandths.
get_completion(elapsed) == Min(Max((elapsed * 1000) \div DURATION, 0), 1000)

\* 1000 * cos(pi * t / 1000) at the quarter points.
CosPi(t) ==
    CASE t = 0    -> 1000
      [] t = 250  -> 707
      [] t = 500  -> 0
      [] t = 750  -> -707
      [] t = 1000 -> -1000

\* fn ease(t), in thousandths.
ease(t) ==
    IF t > 1000 THEN 1000
    ELSE IF t < 0 THEN 0
    ELSE 1000 - CosPi(t)

\* Mutant: the completion is handed to ease whatever the transition.
EaseArgSame(trans, time) == time

\* The argument tick_transitions hands to ease.
EaseArg(trans, time) == IF trans = "FadeIn" THEN 1000 - time ELSE time

\* style.left = Val::Percent(left * 100.)
LeftPercent(trans, time) == ease(EaseArg(trans, time)) \div 10


----------------------------------------------------------------------------
(* Commands: queued by the systems, applied in order at the next           *)
(* synchronisation point.  Insert on an entity that no longer exists       *)
(* panics; remove and despawn on such an entity do nothing.                *)

Cmd(op, e, m, t) == [op |-> op, e |-> e, m |-> m, t |-> t]

World == [alerts |-> alerts, roots |-> roots, panicked |-> panicked,
          despawned |-> despawned, faded |-> faded, rootLog |-> rootLog]

Without(a, gone) == [e \in DOMAIN a \ gone |-> a[e]]

Obituary(a, e, cause) ==
    [e |-> e, marker |-> a[e].marker, cause |-> cause, trans |-> a[e].trans,
     timer |-> a[e].timer, left |-> a[e].left, applied |-> a[e].applied]

\* Mutant: inserting FadeOut also replaces the timer by a fresh one.
InsertFadeOutFresh(w, e) ==
    IF e \notin DOMAIN w.alerts THEN [w EXCEPT !.panicked = TRUE]
    ELSE [w EXCEPT !.alerts[e].trans = "FadeOut",
                   !.alerts[e].timer = NoVal,
                   !.alerts[e].applied =
                       IF w.alerts[e].trans = "FadeOut" THEN @ ELSE 0]

\* commands.entity(e).insert(AlertTransition::FadeOut)
InsertFadeOut(w, e) ==
    IF e \notin DOMAIN w.alerts THEN [w EXCEPT !.panicked = TRUE]
    ELSE [w EXCEPT !.alerts[e].trans = "FadeOut",
                   !.alerts[e].applied =
                       IF w.alerts[e].trans = "FadeOut" THEN @ ELSE 0]

\* commands.entity(e).remove::<(AlertTransition, TransitionTimer)>()
RemoveTransition(w, e) ==
    IF e \notin DOMAIN w.alerts THEN w
    ELSE [w EXCEPT !.alerts[e].trans = "None", !.alerts[e].timer = NoVal]

\* commands.entity(e).insert(timer)
InsertTimer(w, e, t) ==
    IF e \notin DOMAIN w.alerts THEN [w EXCEPT !.panicked = TRUE]
    ELSE [w EXCEPT !.alerts[e].timer = t]

\* commands.entity(e).despawn_recursive() on an alert (its header, button
\* and body go with it)
DespawnAlert(w, e) ==
    IF e \notin DOMAIN w.alerts THEN w
    ELSE [w EXCEPT !.alerts = Without(w.alerts, {e}),
                   !.despawned = @ \cup {Obituary(w.alerts, e, "fade_out")},
                   !.faded[w.alerts[e].marker] = @ + 1]

\* commands.entity(root).despawn_recursive(): the root and its children
DespawnRoot(w, m) ==
    IF w.roots[m] = 0 THEN w
    ELSE LET kids == {e \in DOMAIN w.alerts :
                         w.alerts[e].marker = m /\ w.alerts[e].parent}
         IN [w EXCEPT !.roots[m] = @ - 1,
                      !.alerts = Without(w.alerts, kids),
                      !.despawned =
                          @ \cup {Obituary(w.alerts, e, "root") : e \in kids}]

\* commands.spawn((AlertUiRoot, Name, root node, M::default()))
SpawnRoot(w, m) == [w EXCEPT !.roots[m] = @ + 1, !.rootLog[m] = @ + 1]

\* Mutant: the promoted alert is not added to the root's children.
InsertAlertUiNoParent(w, e, m) ==
    IF e \notin DOMAIN w.alerts THEN [w EXCEPT !.panicked = TRUE]
    ELSE [w EXCEPT !.alerts[e].ui = TRUE,
                   !.alerts[e].marker = m,
                   !.alerts[e].left = 100,
                   !.alerts[e].trans = "FadeIn",
                   !.alerts[e].interaction = "None",
                   !.alerts[e].bg = "DARK_GRAY"]

\* commands.entity(e).insert((AlertUi, alert_node, FadeIn, M::default()))
\*     .with_children(header with the dismiss button, body with the text);
\* commands.entity(root).add_child(e)
InsertAlertUi(w, e, m) ==
    IF e \notin DOMAIN w.alerts THEN [w EXCEPT !.panicked = TRUE]
    ELSE [w EXCEPT !.alerts[e].ui = TRUE,
                   !.alerts[e].marker = m,
                   !.alerts[e].left = 100,
                   !.alerts[e].trans = "FadeIn",
                   !.alerts[e].parent = TRUE,
                   !.alerts[e].interaction = "None",
                   !.alerts[e].bg = "DARK_GRAY"]

Apply(w, c) ==
    IF w.panicked THEN w
    ELSE CASE c.op = "InsertFadeOut"    -> InsertFadeOut(w, c.e)
           [] c.op = "RemoveTransition" -> RemoveTransition(w, c.e)
           [] c.op = "InsertTimer"      -> InsertTimer(w, c.e, c.t)
           [] c.op = "DespawnAlert"     -> DespawnAlert(w, c.e)
           [] c.op = "DespawnRoot"      -> DespawnRoot(w, c.m)
           [] c.op = "SpawnRoot"        -> SpawnRoot(w, c.m)
           [] c.op = "InsertAlertUi"    -> InsertAlertUi(w, c.e, c.m)

\* The world after the commands q[i], q[i+1], ... (each intermediate world
\* is bound, so that it is computed once).
RECURSIVE ApplyFrom(_, _, _)
ApplyFrom(w, q, i) ==
    IF i > Len(q) THEN w
    ELSE CHOOSE r \in {ApplyFrom(x, q, i + 1) : x \in {Apply(w, q[i])}} : TRUE

ApplyAll(w, q) == ApplyFrom(w, q, 1)

\* Concatenation of the command lists f[e], e running over S in id order.
RECURSIVE Gather(_, _)
Gather(f, order) ==
    IF order = <<>> THEN <<>> ELSE f[Head(order)] \o Gather(f, Tail(order))

----------------------------------------------------------------------------
(* The frame: Update, then the chain of AlertsPlugin::build in PostUpdate. *)

\* Mutant: spawn_alerts is chained before tick_transitions.
ChainSpawnFirst ==
    << "tick_active_alerts", "despawn_alert_root", "spawn_alerts",
       "tick_transitions", "handle_alert_button_bgs",
       "handle_dismiss_alert_buttons" >>

Chain == << "tick_active_alerts", "despawn_alert_root", "tick_transitions",
            "spawn_alerts", "handle_alert_button_bgs",
            "handle_dismiss_alert_buttons" >>

Windows == {"Update"} \cup {Chain[i] : i \in 1..Len(Chain)}

NextWindow(p) ==
    IF p = "Update" THEN Chain[1]
    ELSE LET i == CHOOSE j \in 1..Len(Chain) : Chain[j] = p
         IN IF i = Len(Chain) THEN "Update" ELSE Chain[i + 1]

\* Whether a synchronisation point follows the systems of window p: after
\* every system that owns Commands, and at the end of the schedule.
SyncAfter(p) == p # "handle_alert_button_bgs"

\* System of plugin m has run in window pc: a are the alerts after its direct
\* mutations, q the commands it queued, boom whether it panicked.  When it is
\* the last system of the window the queue is applied and the next window
\* begins.
Finish(m, a, q, boom) ==
    LET last == ran \cup {m} = plugins
        sync == last /\ SyncAfter(pc)
    IN \E queue \in {cmds \o q} :
       \E w0 \in {[World EXCEPT !.alerts = a, !.panicked = boom]} :
       \E w \in {IF sync THEN ApplyAll(w0, queue) ELSE w0} :
          /\ alerts' = w.alerts
          /\ roots' = w.roots
          /\ panicked' = w.panicked
          /\ despawned' = w.despawned
          /\ rootLog' = w.rootLog
          /\ faded' = w.faded
          /\ cmds' = IF sync THEN <<>> ELSE queue
          /\ ran' = IF last THEN {} ELSE ran \cup {m}
          /\ pc' = IF last THEN NextWindow(pc) ELSE pc
          /\ UNCHANGED <<delta, nextId, lifetime, max_alerts, plugins, called, enq>>

Ready(p, m) == pc = p /\ m \in plugins \ ran /\ ~panicked

----------------------------------------------------------------------------
(* Update: the piped systems that enqueue alerts.  Their spawn commands    *)
(* are applied when Update ends, before PostUpdate reads anything.         *)

\* Mutant: the last message of the vector is not spawned under its own text.
SpawnAllFirstText(a, from, msgs, m) ==
    [e \in DOMAIN a \cup {from + i - 1 : i \in 1..Len(msgs)} |->
        IF e \in DOMAIN a THEN a[e] ELSE AlertBundle(msgs[1], m)]

\* for alert in alerts { commands.spawn((Alert::bundle(alert), marker)) }
SpawnAll(a, from, msgs, m) ==
    [e \in DOMAIN a \cup {from + i - 1 : i \in 1..Len(msgs)} |->
        IF e \in DOMAIN a THEN a[e] ELSE AlertBundle(msgs[e - from + 1], m)]

Enqueue(msgs, m) ==
    /\ pc = "Update" /\ ~panicked
    /\ nextId + Len(msgs) <= MaxEntities + 1
    /\ alerts' = SpawnAll(alerts, nextId, msgs, m)
    /\ nextId' = nextId + Len(msgs)
    /\ called' = [msgs |-> msgs, marker |-> m]
    /\ enq' = [enq EXCEPT ![m] = @ + Len(msgs)]
    /\ UNCHANGED <<pc, ran, delta, roots, cmds, lifetime, max_alerts, plugins,
                   panicked, despawned, faded, rootLog>>

\* AlertsPlugin::alert
Alert(msgs) == Enqueue(msgs, "AlertMarker")

\* AlertsPlugin::<M>::custom_alert
CustomAlert(msgs, m) == m \in plugins /\ Enqueue(msgs, m)

\* The host's part of a frame: Time::delta() and the Interaction of every
\* dismiss button are what the PostUpdate systems will read.
FrameInput(d, inter) ==
    /\ pc = "Update" /\ ~panicked
    /\ delta' = d
    /\ alerts' = [e \in DOMAIN alerts |->
                     IF alerts[e].ui
                     THEN [alerts[e] EXCEPT !.interaction = inter[e]]
                     ELSE alerts[e]]
    /\ pc' = NextWindow(pc)
    /\ despawned' = {}
    /\ called' = NoCall
    /\ UNCHANGED <<ran, nextId, roots, cmds, lifetime, max_alerts, plugins,
                   panicked, faded, rootLog, enq>>

----------------------------------------------------------------------------
(* The systems of AlertsPlugin<M>. *)

\* Mutant: the lifetime counts as exceeded when the age reaches it.
LifetimeReached(age, life) == age >= life

\* Mutant: the lifetime never expires.
LifetimeNever(age, life) == FALSE

\* timer.time_alive.elapsed() > lifetime.lifetime
LifetimeExceeded(age, life) == age > life

TickActiveAlerts(m) ==
    /\ Ready("tick_active_alerts", m)
    /\ LET spawned == SpawnedAlerts(alerts, m)
           a == [e \in DOMAIN alerts |->
                    IF e \in spawned
                    THEN [alerts[e] EXCEPT !.age = TickAge(@, delta)]
                    ELSE alerts[e]]
           q == [e \in spawned |->
                    IF LifetimeExceeded(a[e].age, lifetime[m])
                    THEN <<Cmd("InsertFadeOut", e, m, 0)>>
                    ELSE <<>>]
       IN Finish(m, a, Gather(q, SetToSeq(spawned)), FALSE)

\* Mutant: the displayed alerts are left out of the count.
NoPendingAlerts(unspawned, live) == unspawned = 0

\* num_unspawned_alerts + num_live_alerts == 0
NoAlerts(unspawned, live) == unspawned + live = 0

\* Mutant: a root is spawned whether or not one exists.
RootAlwaysMissing(n) == TRUE

\* alerts_ui_root.is_empty()
RootMissing(n) == n = 0

\* alerts_ui_root.single() panics unless exactly one root matches
SinglePanics(n) == n # 1

DespawnAlertRoot(m) ==
    /\ Ready("despawn_alert_root", m)
    /\ LET live == Cardinality(SpawnedAlerts(alerts, m))
           unspawned == Cardinality(AlertsToSpawn(alerts, m))
           go == NoAlerts(unspawned, live) /\ ~RootMissing(roots[m])
       IN Finish(m, alerts,
                 IF go /\ ~SinglePanics(roots[m])
                 THEN <<Cmd("DespawnRoot", 0, m, 0)>> ELSE <<>>,
                 go /\ SinglePanics(roots[m]))

\* Mutant: a transition counts as complete at half its duration.
CompleteAtHalf(time) == time >= 500

\* time >= 1.
Complete(time) == time >= 1000

\* One iteration of the loop of tick_transitions: the components it writes
\* at once ...
TickNode(r, d) ==
    LET elapsed == (IF r.timer = NoVal THEN 0 ELSE r.timer) + d
    IN [r EXCEPT !.timer = IF r.timer = NoVal THEN NoVal ELSE elapsed,
                 !.left = LeftPercent(r.trans, get_completion(elapsed)),
                 !.applied = IF r.trans = "FadeOut" THEN @ + d ELSE @,
                 !.sinceFirst = IF r.pressed THEN Min(@ + d, DURATION) ELSE @,
                 !.sinceLast = IF r.pressed THEN @ + d ELSE @]

\* Mutant: a completed FadeOut is handled like a completed FadeIn.
NodeCmdsRemoveOnly(e, r, d) ==
    LET elapsed == (IF r.timer = NoVal THEN 0 ELSE r.timer) + d
    IN (IF r.timer = NoVal THEN <<Cmd("InsertTimer", e, "", elapsed)>> ELSE <<>>)
       \o (IF Complete(get_completion(elapsed))
           THEN <<Cmd("RemoveTransition", e, "", 0)>>
           ELSE <<>>)

\* ... and the commands it queues.
NodeCmds(e, r, d) ==
    LET elapsed == (IF r.timer = NoVal THEN 0 ELSE r.timer) + d
    IN (IF r.timer = NoVal THEN <<Cmd("InsertTimer", e, "", elapsed)>> ELSE <<>>)
       \o (IF Complete(get_completion(elapsed))
           THEN IF r.trans = "FadeIn"
                THEN <<Cmd("RemoveTransition", e, "", 0)>>
                ELSE <<Cmd("DespawnAlert", e, "", 0)>>
           ELSE <<>>)

\* The alert nodes tick_transitions of plugin m iterates over: the query has
\* no With<M> filter.
TransitionNodes(a, m) == AlertNodes(a)

TickTransitions(m) ==
    /\ Ready("tick_transitions", m)
    /\ LET nodes == TransitionNodes(alerts, m)
           a == [e \in DOMAIN alerts |->
                    IF e \in nodes THEN TickNode(alerts[e], delta) ELSE alerts[e]]
           q == [e \in nodes |-> NodeCmds(e, alerts[e], delta)]
       IN Finish(m, a, Gather(q, SetToSeq(nodes)), FALSE)

\* Mutant: the capacity is not reduced by the alerts already displayed.
NumAlertSpacesIgnoringLive(max, live) == max

\* max_alerts.saturating_sub(num_live_alerts)
NumAlertSpaces(max, live) == IF max >= live THEN max - live ELSE 0

\* Mutant: at most one alert is promoted per run.
TakeOne(pending, n) ==
    {S \in SUBSET pending : Cardinality(S) = Min(Min(n, 1), Cardinality(pending))}

\* alerts_to_spawn.iter().take(num_alert_spaces): the sets of pending alerts
\* the loop may visit (the iteration order of a query is not specified).
Take(pending, n) ==
    {S \in SUBSET pending : Cardinality(S) = Min(n, Cardinality(pending))}

SpawnAlerts(m) ==
    /\ Ready("spawn_alerts", m)
    /\ LET live == Cardinality(SpawnedAlerts(alerts, m))
           spaces == NumAlertSpaces(max_alerts[m], live)
           pending == AlertsToSpawn(alerts, m)
       IN IF NoAlerts(Cardinality(pending), live)
          THEN Finish(m, alerts, <<>>, FALSE)
          ELSE \E S \in Take(pending, spaces) :
                 LET root == IF RootMissing(roots[m])
                             THEN <<Cmd("SpawnRoot", 0, m, 0)>> ELSE <<>>
                     q == [e \in S |-> <<Cmd("InsertAlertUi", e, m, 0)>>]
                 IN Finish(m, alerts, root \o Gather(q, SetToSeq(S)),
                           ~RootMissing(roots[m]) /\ SinglePanics(roots[m]))

\* bg_color.0 = match interaction { .. }
ButtonBg(interaction) ==
    CASE interaction = "Pressed" -> "DARK_GRAY"
      [] interaction = "Hovered" -> "rgb(0.4, 0.4, 0.4)"
      [] interaction = "None"    -> "rgb(0.35, 0.35, 0.35)"

HandleAlertButtonBgs(m) ==
    /\ Ready("handle_alert_button_bgs", m)
    /\ LET a == [e \in DOMAIN alerts |->
                    IF e \in DismissButtons(alerts)
                    THEN [alerts[e] EXCEPT !.bg = ButtonBg(alerts[e].interaction)]
                    ELSE alerts[e]]
       IN Finish(m, a, <<>>, FALSE)

\* matches!(interaction, Interaction::Pressed)
IsPressed(interaction) == interaction = "Pressed"

\* Mutant: the transition is removed and FadeOut is not inserted.
DismissRemoveOnly(e) == << Cmd("RemoveTransition", e, "", 0) >>

\* Mutant: FadeOut is inserted before the transition is removed.
DismissInsertFirst(e) ==
    << Cmd("InsertFadeOut", e, "", 0), Cmd("RemoveTransition", e, "", 0) >>

\* What handle_dismiss_alert_buttons queues for a pressed button.
DismissCmds(e) ==
    << Cmd("RemoveTransition", e, "", 0), Cmd("InsertFadeOut", e, "", 0) >>

HandleDismissAlertButtons(m) ==
    /\ Ready("handle_dismiss_alert_buttons", m)
    /\ LET hit == {e \in DismissButtons(alerts) : IsPressed(alerts[e].interaction)}
           a == [e \in DOMAIN alerts |->
                    IF e \in hit
                    THEN [alerts[e] EXCEPT !.pressed = TRUE, !.sinceLast = 0]
                    ELSE alerts[e]]
           q == [e \in hit |-> DismissCmds(e)]
       IN Finish(m, a, Gather(q, SetToSeq(hit)), FALSE)

----------------------------------------------------------------------------
(* Specifications. *)

\* The state after App::new() + add_plugins for the markers in ps, with the
\* resources the host app may insert over the plugin's defaults.
InitWith(ps) ==
    /\ pc = "Update"
    /\ ran = {}
    /\ delta = 0
    /\ alerts = <<>>
    /\ nextId = 1
    /\ roots = [m \in Markers |-> 0]
    /\ cmds = <<>>
    /\ plugins = ps
    /\ lifetime \in [ps -> Lifetimes]
    /\ max_alerts \in [ps -> Caps]
    /\ panicked = FALSE
    /\ despawned = {}
    /\ faded = [m \in Markers |-> 0]
    /\ rootLog = [m \in Markers |-> 0]
    /\ called = NoCall
    /\ enq = [m \in Markers |-> 0]

Init == InitWith({"AlertMarker"})

Next ==
    \/ \E msgs \in Batches : Alert(msgs)
    \/ \E msgs \in Batches, m \in Markers : CustomAlert(msgs, m)
    \/ \E d \in Deltas, inter \in [DOMAIN alerts -> Interactions] : FrameInput(d, inter)
    \/ \E m \in Markers : TickActiveAlerts(m)
    \/ \E m \in Markers : DespawnAlertRoot(m)
    \/ \E m \in Markers : TickTransitions(m)
    \/ \E m \in Markers : SpawnAlerts(m)
    \/ \E m \in Markers : HandleAlertButtonBgs(m)
    \/ \E m \in Markers : HandleDismissAlertButtons(m)

Spec == Init /\ [][Next]_vars

\* Two plugin instances in one app: AlertsPlugin::new() and
\* AlertsPlugin::<MyAlert>::default().
InitMulti ==
    /\ InitWith(Markers)
    /\ lifetime = [m \in Markers |-> IF m = "AlertMarker" THEN 500 ELSE 250]
    /\ max_alerts = [m \in Markers |-> IF m = "AlertMarker" THEN 2 ELSE 1]

SpecMulti == InitMulti /\ [][Next]_vars

\* Frames keep running: the host runs its schedules again and again, and a
\* schedule runs every system of the chain.
Frame ==
    \/ \E d \in Deltas, inter \in [DOMAIN alerts -> Interactions] : FrameInput(d, inter)
    \/ \E m \in Markers : TickActiveAlerts(m)
    \/ \E m \in Markers : DespawnAlertRoot(m)
    \/ \E m \in Markers : TickTransitions(m)
    \/ \E m \in Markers : SpawnAlerts(m)
    \/ \E m \in Markers : HandleAlertButtonBgs(m)
    \/ \E m \in Markers : HandleDismissAlertButtons(m)

\* The configurations under which liveness is checked: a lifetime that
\* expires half-way through the fade-in, and a display with room for one or
\* two alerts.
InitLive ==
    /\ Init
    /\ lifetime["AlertMarker"] = 250
    /\ max_alerts["AlertMarker"] \in {1, 2}

SpecLive == InitLive /\ [][Next]_vars /\ WF_vars(Frame)

\* The same app run at a finer frame rate: deltas of a quarter of the
\* transition, so that a transition spans several frames, and a display
\* with room for one alert.
InitFine ==
    /\ Init
    /\ lifetime["AlertMarker"] = 250
    /\ max_alerts["AlertMarker"] = 1

NextFine ==
    \/ \E msgs \in Batches : Alert(msgs)
    \/ \E msgs \in Batches, m \in Markers : CustomAlert(msgs, m)
    \/ \E d \in FineDeltas, inter \in [DOMAIN alerts -> Interactions] : FrameInput(d, inter)
    \/ \E m \in Markers : TickActiveAlerts(m)
    \/ \E m \in Markers : DespawnAlertRoot(m)
    \/ \E m \in Markers : TickTransitions(m)
    \/ \E m \in Markers : SpawnAlerts(m)
    \/ \E m \in Markers : HandleAlertButtonBgs(m)
    \/ \E m \in Markers : HandleDismissAlertButtons(m)

FrameFine ==
    \/ \E d \in FineDeltas, inter \in [DOMAIN alerts -> Interactions] : FrameInput(d, inter)
    \/ \E m \in Markers : TickActiveAlerts(m)
    \/ \E m \in Markers : DespawnAlertRoot(m)
    \/ \E m \in Markers : TickTransitions(m)
    \/ \E m \in Markers : SpawnAlerts(m)
    \/ \E m \in Markers : HandleAlertButtonBgs(m)
    \/ \E m \in Markers : HandleDismissAlertButtons(m)

SpecFine == InitFine /\ [][NextFine]_vars /\ WF_vars(FrameFine)

----------------------------------------------------------------------------
(* Claims. *)

Displayed(m) == SpawnedAlerts(alerts, m)
Backlog(m) == AlertsToSpawn(alerts, m)

\* C1: for each marker, the number of alerts that carry display UI (fading
\* in, visible or fading out) never exceeds MaxAlerts<M>; an alert that is
\* fading out is one of them until it is despawned.
C1_DisplayedAtMostMax ==
    \A m \in plugins : Cardinality(Displayed(m)) <= max_alerts[m]

\* A full display in which a fading-out alert holds a slot while the backlog
\* waits, right after spawn_alerts ran.
C1_Witness ==
    \E m \in plugins :
        /\ pc = "handle_alert_button_bgs"
        /\ max_alerts[m] = 2
        /\ Cardinality(Displayed(m)) = 2
        /\ \E e \in Displayed(m) : alerts[e].trans = "FadeOut"
        /\ Backlog(m) # {}

\* C2: a call of alert / custom_alert with k messages creates exactly k new
\* pending alerts, each with its own message, the marker and age 0, and
\* changes no existing alert; and no step removes a pending alert: it stays
\* until it is promoted.
C2_EnqueueAddsPending ==
    [][ /\ called' # called /\ called' # NoCall =>
            LET k == Len(called'.msgs)
                new == nextId .. (nextId + k - 1)
            IN /\ DOMAIN alerts' = DOMAIN alerts \cup new
               /\ new \cap DOMAIN alerts = {}
               /\ \A e \in DOMAIN alerts : alerts'[e] = alerts[e]
               /\ \A e \in new :
                    /\ alerts'[e].message = called'.msgs[e - nextId + 1]
                    /\ alerts'[e].marker = called'.marker
                    /\ alerts'[e].age = 0
                    /\ ~alerts'[e].ui
        /\ \A e \in DOMAIN alerts :
              ~alerts[e].ui => e \in DOMAIN alerts' ]_vars

\* Two messages enqueued in one call wait in the backlog behind a full display.
C2_Witness ==
    \E m \in plugins :
        /\ pc = "Update"
        /\ called = [msgs |-> <<"m1", "m2">>, marker |-> m]
        /\ max_alerts[m] >= 1
        /\ Cardinality(Displayed(m)) = max_alerts[m]
        /\ \E e \in Backlog(m) :
              /\ e + 1 \in Backlog(m)
              /\ alerts[e].message = "m1" /\ alerts[e + 1].message = "m2"
              /\ e + 2 = nextId

\* C3: a run of spawn_alerts promotes exactly min(P, max(0, Max - L)) pending
\* alerts, P and L being the pending and displayed counts it finds; after it
\* the backlog is empty or the displayed count is at least Max.
C3_PromotesIntoFreeSlots ==
    [][ pc = "spawn_alerts" =>
          \A m \in plugins :
            LET P == Cardinality(Backlog(m))
                L == Cardinality(Displayed(m))
                promoted == {e \in Backlog(m) :
                                e \in DOMAIN alerts' /\ alerts'[e].ui}
            IN /\ Cardinality(promoted) = Min(P, Max(0, max_alerts[m] - L))
               /\ \/ AlertsToSpawn(alerts', m) = {}
                  \/ Cardinality(SpawnedAlerts(alerts', m)) >= max_alerts[m] ]_vars

\* spawn_alerts has just promoted two alerts at once into a display that
\* already held none, and one alert is left in the backlog.
C3_Witness ==
    \E m \in plugins :
        /\ pc = "handle_alert_button_bgs"
        /\ Cardinality({e \in Displayed(m) :
               alerts[e].trans = "FadeIn" /\ alerts[e].timer = NoVal
               /\ alerts[e].age = 0}) = 2
        /\ Backlog(m) # {}

\* C4: an alert whose dismiss button was never pressed is in FadeOut exactly
\* when its displayed age is strictly greater than the lifetime: the FadeOut
\* is inserted in the first frame whose tick takes the age past the lifetime
\* and in no earlier one.
C4_FadeOutIffAgeExceedsLifetime ==
    \A e \in DOMAIN alerts :
        alerts[e].ui /\ ~alerts[e].pressed =>
            (alerts[e].trans = "FadeOut"
                <=> alerts[e].age > lifetime[alerts[e].marker])

\* An alert whose age has just been ticked to exactly the lifetime and that
\* is not fading out.
C4_Witness ==
    \E e \in DOMAIN alerts :
        /\ pc = "despawn_alert_root"
        /\ alerts[e].ui /\ ~alerts[e].pressed
        /\ alerts[e].age > 0
        /\ alerts[e].age = lifetime[alerts[e].marker]
        /\ alerts[e].trans # "FadeOut"

\* A dismiss press was handled in the frame that just ended.
PressHandled(e) ==
    /\ pc = "Update"
    /\ e \in DOMAIN alerts
    /\ alerts[e].ui
    /\ IsPressed(alerts[e].interaction)

\* C5 as stated: an alert whose dismiss button is Pressed when
\* handle_dismiss_alert_buttons runs is in FadeOut at the end of the frame,
\* and it is gone once 500ms have been ticked since that press, whether or
\* not the button is still Pressed in the frames that follow.
C5_GoneWithin500msOfFirstPress ==
    /\ \A e \in DOMAIN alerts : PressHandled(e) => alerts[e].trans = "FadeOut"
    /\ \A e \in DOMAIN alerts :
          alerts[e].pressed => alerts[e].sinceFirst < DURATION

\* C5, amended: an alert whose dismiss button is Pressed when
\* handle_dismiss_alert_buttons runs is in FadeOut, with no transition timer,
\* at the end of the frame whatever its prior state, and it is gone once
\* 500ms have been ticked since the latest frame in which its button was
\* found Pressed.
C5_GoneWithin500msOfLatestPress ==
    /\ \A e \in DOMAIN alerts :
          PressHandled(e) =>
              alerts[e].trans = "FadeOut" /\ alerts[e].timer = NoVal
    /\ \A e \in DOMAIN alerts :
          alerts[e].pressed => alerts[e].sinceLast < DURATION

\* An alert pressed half-way through its fade-in: it was promoted a frame
\* ago, its lifetime has not expired, and it ends the frame in FadeOut.
C5_Witness ==
    \E e \in DOMAIN alerts :
        /\ PressHandled(e)
        /\ alerts[e].age = 250
        /\ lifetime[alerts[e].marker] = 500
        /\ alerts[e].trans = "FadeOut"
        /\ alerts[e].sinceFirst = 0

\* C6: whenever an alert is despawned, tick_transitions has applied at least
\* TransitionTimer::DURATION of frame delta to it since it most recently
\* entered FadeOut.
C6_FadeOutRunsFullDuration ==
    \A o \in despawned : o.cause = "fade_out" => o.applied >= DURATION

\* C7: with two plugin instances installed, a system of one instance leaves
\* the alerts of the other marker as they are, so that their transition
\* timers advance once per frame.
C7_OtherMarkersUntouched ==
    [][ \A m \in ran' \ ran :
          \A e \in DOMAIN alerts :
            alerts[e].marker # m =>
                /\ e \in DOMAIN alerts'
                /\ alerts'[e].timer = alerts[e].timer
                /\ alerts'[e].left = alerts[e].left
                /\ alerts'[e].age = alerts[e].age ]_vars

\* C8: for each marker at most one alert UI root exists.
C8_AtMostOneRoot == \A m \in Markers : roots[m] <= 1

\* A second root of the marker, spawned after the first one was despawned.
C8_Witness == \E m \in plugins : rootLog[m] = 2 /\ roots[m] = 1

\* C9: an alert is despawned only at the completion of its own fade-out, it
\* is in FadeOut only if its displayed age exceeded the lifetime or its
\* dismiss button was pressed, and the alerts of a marker number the
\* messages enqueued minus the fade-outs completed.
C9_DespawnedOnlyByOwnFadeOut ==
    /\ \A o \in despawned :
          o.cause = "fade_out" /\ o.trans = "FadeOut" /\ o.timer >= DURATION
    /\ \A e \in DOMAIN alerts :
          alerts[e].trans = "FadeOut" =>
              /\ alerts[e].ui
              /\ \/ alerts[e].age > lifetime[alerts[e].marker]
                 \/ alerts[e].pressed
    /\ \A m \in plugins :
          Cardinality({e \in DOMAIN alerts : alerts[e].marker = m})
              = enq[m] - faded[m]

\* An alert has just completed its fade-out while another one is displayed
\* and a third one waits.
C9_Witness ==
    \E m \in plugins :
        /\ pc = "spawn_alerts"
        /\ \E o \in despawned : o.marker = m
        /\ Displayed(m) # {}
        /\ Backlog(m) # {}

\* C10 as stated: every alert promoted to display is eventually despawned,
\* under every pattern of dismiss-button interaction.
C10_DisplayedEventuallyDespawned ==
    \A e \in 1..MaxEntities :
        (e \in DOMAIN alerts /\ alerts[e].ui) ~> (e \notin DOMAIN alerts)

\* C10, amended: every alert promoted to display is eventually despawned,
\* unless its dismiss button is found Pressed again and again without end.
C10_DespawnedUnlessPressedForever ==
    \A e \in 1..MaxEntities :
        (e \in DOMAIN alerts /\ alerts[e].ui)
            ~> (e \notin DOMAIN alerts \/ PressHandled(e))

\* An alert whose button was held over frames that ticked 500ms and has now
\* been released.
C10_Witness ==
    \E e \in DOMAIN alerts :
        /\ pc = "tick_active_alerts"
        /\ alerts[e].ui /\ alerts[e].pressed
        /\ alerts[e].sinceFirst = DURATION
        /\ alerts[e].interaction = "None"

\* C11: a run of tick_transitions sets the left offset of every alert that
\* carries a transition to 100 * (1 - cos(pi * t)) percent, where c is
\* min(1, elapsed / 500ms) after the tick, t = c for FadeOut and t = 1 - c
\* for FadeIn; a FadeIn that completes leaves the alert at 0 percent.
C11_LeftFollowsEasedCompletion ==
    [][ pc = "tick_transitions" =>
          \A e \in AlertNodes(alerts) :
            LET elapsed == (IF alerts[e].timer = NoVal THEN 0 ELSE alerts[e].timer)
                               + delta
                c == Min(1000, (elapsed * 1000) \div DURATION)
                t == IF alerts[e].trans = "FadeOut" THEN c ELSE 1000 - c
                offset == (1000 - CosPi(t)) \div 10
            IN /\ e \in DOMAIN alerts' => alerts'[e].left = offset
               /\ e \notin DOMAIN alerts' =>
                      \E o \in despawned' : o.e = e /\ o.left = offset
               /\ alerts[e].trans = "FadeIn" /\ c = 1000 =>
                      /\ e \in DOMAIN alerts'
                      /\ alerts'[e].left = 0 ]_vars

\* An alert whose fade-in has just completed over two frames of 250ms: it
\* stood at 100 percent half-way and now rests at 0 percent, its transition
\* removed.
C11_Witness ==
    \E e \in DOMAIN alerts :
        /\ pc = "spawn_alerts"
        /\ delta = 250
        /\ alerts[e].ui /\ alerts[e].trans = "None" /\ alerts[e].timer = NoVal
        /\ alerts[e].age = 500
        /\ alerts[e].left = 0

\* The lifecycle stage of an alert: Pending, FadingIn, Visible, FadingOut.
Stage(r) ==
    IF ~r.ui THEN 0
    ELSE CASE r.trans = "FadeIn"  -> 1
           [] r.trans = "None"    -> 2
           [] r.trans = "FadeOut" -> 3

\* C12: no step moves an alert to an earlier stage of Pending -> FadingIn ->
\* Visible -> FadingOut -> removed: a promoted alert never loses its display
\* UI, a Visible alert never returns to FadeIn, an alert in FadeOut stays in
\* FadeOut until it is despawned, and a despawned alert never comes back.
C12_LifecycleOnlyForward ==
    [][ /\ \A e \in DOMAIN alerts \cap DOMAIN alerts' :
              Stage(alerts'[e]) >= Stage(alerts[e])
        /\ \A e \in 1..(nextId - 1) :
              e \notin DOMAIN alerts => e \notin DOMAIN alerts' ]_vars

\* An alert already fading out after an earlier press whose button is found
\* Pressed again: the frame ends with the alert still in FadeOut.
C12_Witness ==
    \E e \in DOMAIN alerts :
        /\ PressHandled(e)
        /\ alerts[e].pressed
        /\ alerts[e].sinceFirst >= 250
        /\ alerts[e].trans = "FadeOut"

\* C13: an alert enters FadeOut only from the Visible stage, that is, with
\* its fade-in completed and its AlertTransition and TransitionTimer removed;
\* no step takes an alert from FadeIn to FadeOut.
C13_FadeOutOnlyFromVisible ==
    [][ \A e \in DOMAIN alerts \cap DOMAIN alerts' :
          alerts'[e].trans = "FadeOut" /\ alerts[e].trans # "FadeOut" =>
              /\ alerts[e].ui
              /\ alerts[e].trans = "None"
              /\ alerts[e].timer = NoVal ]_vars

\* C14: the age of an alert stays 0 while it waits in the backlog and is 0
\* when it is promoted; once displayed it advances by exactly the frame delta
\* in every run of tick_active_alerts (readings saturate at AgeCap), no other
\* step changes it, and it never decreases.
C14_AgeTicksOnlyWhileDisplayed ==
    [][ \A e \in DOMAIN alerts \cap DOMAIN alerts' :
          /\ ~alerts[e].ui => alerts[e].age = 0 /\ alerts'[e].age = 0
          /\ alerts'[e].age >= alerts[e].age
          /\ alerts[e].ui =>
                alerts'[e].age = IF pc = "tick_active_alerts"
                                 THEN Min(alerts[e].age + delta, AgeCap)
                                 ELSE alerts[e].age ]_vars

\* The second message of a batch has just been promoted with age 0 after it
\* waited in the backlog for the whole display of the first one.
C14_Witness ==
    \E e \in DOMAIN alerts :
        /\ pc = "handle_alert_button_bgs"
        /\ max_alerts[alerts[e].marker] = 1
        /\ alerts[e].message = "m2"
        /\ (e - 1) \notin DOMAIN alerts
        /\ alerts[e].ui /\ alerts[e].trans = "FadeIn" /\ alerts[e].timer = NoVal
        /\ alerts[e].age = 0

\* C15: a run of despawn_alert_root removes the root of its marker exactly
\* when a root exists and no alert of the marker exists, pending or
\* displayed, and it removes no alert; no other step removes a root, and no
\* alert is ever despawned as a child of a despawned root.
C15_RootDespawnedIffNoAlerts ==
    [][ \A m \in plugins :
          LET none == \A e \in DOMAIN alerts : alerts[e].marker # m
          IN /\ pc = "despawn_alert_root" =>
                  /\ roots'[m] = IF roots[m] >= 1 /\ none
                                 THEN roots[m] - 1 ELSE roots[m]
                  /\ alerts' = alerts
             /\ roots'[m] < roots[m] => pc = "despawn_alert_root" /\ none
             /\ \A o \in despawned' : o.cause # "root" ]_vars

\* The root has just been despawned, in the frame after the last alert
\* completed its fade-out.
C15_Witness ==
    \E m \in plugins :
        /\ pc = "tick_transitions"
        /\ roots[m] = 0
        /\ rootLog[m] = 1
        /\ faded[m] >= 1
        /\ despawned = {}

\* C16: after a run of spawn_alerts, until the next Update, a root of marker
\* M exists if any alert of M exists, pending or displayed (also when
\* MaxAlerts is 0 and nothing can be promoted); and at every moment every
\* displayed alert of M is a child of an existing root of M.
C16_RootWhileAlertsExist ==
    \A m \in plugins :
        /\ pc \in {"handle_alert_button_bgs", "handle_dismiss_alert_buttons"}
              /\ (\E e \in DOMAIN alerts : alerts[e].marker = m)
              => roots[m] >= 1
        /\ \A e \in Displayed(m) : alerts[e].parent /\ roots[m] >= 1

\* The run of spawn_alerts that created the first root has in the same run
\* promoted the first alert, while another alert waits behind the limit.
C16_Witness ==
    \E m \in plugins :
        /\ pc = "handle_alert_button_bgs"
        /\ max_alerts[m] = 1
        /\ rootLog[m] = 1 /\ roots[m] = 1 /\ faded[m] = 0
        /\ Backlog(m) # {}
        /\ \E e \in Displayed(m) :
              /\ alerts[e].parent
              /\ alerts[e].trans = "FadeIn" /\ alerts[e].timer = NoVal

\* The dismiss button of alert e is down in the current frame.
Held(e) ==
    /\ e \in DOMAIN alerts
    /\ alerts[e].ui
    /\ IsPressed(alerts[e].interaction)

\* No alert and no root is left.
Empty == alerts = <<>> /\ \A m \in plugins : roots[m] = 0

\* Once the last alert is gone, the next run of despawn_alert_root removes
\* the root.
RootGoneAFrameLater ==
    \A m \in plugins :
        pc = "tick_transitions" /\ (\A e \in DOMAIN alerts : alerts[e].marker # m)
            => roots[m] = 0

\* C17 as stated: with MaxAlerts >= 1, a finite lifetime and frames that keep
\* running, once enqueuing has stopped the system reaches the empty state and
\* stays there, provided no dismiss button stays pressed for ever; the root
\* is gone one frame after the last alert.
C17_EmptyUnlessButtonHeld ==
    /\ []RootGoneAFrameLater
    /\ (\A e \in 1..MaxEntities : []<>(~Held(e))) => <>[]Empty

\* C17, amended: the same, provided that from some frame on no dismiss
\* button is found Pressed.
C17_EmptyOncePressesEnd ==
    /\ []RootGoneAFrameLater
    /\ (\A e \in 1..MaxEntities : <>[](~Held(e))) => <>[]Empty

\* Every alert the bound allows has been enqueued, displayed and despawned,
\* and the root has just been despawned in the frame that followed.
C17_Witness ==
    \E m \in plugins :
        /\ pc = "tick_transitions"
        /\ Empty
        /\ nextId = MaxEntities + 1
        /\ faded[m] = MaxEntities
        /\ rootLog[m] >= 1

\* The completion of the transition of alert record r, in thousandths.
Progress(r) == IF r.timer = NoVal THEN 0 ELSE get_completion(r.timer)

\* C18 as stated: while an alert is in FadeOut, no step lowers the completion
\* of its transition timer: neither the FadeOut inserted again after the
\* lifetime expired nor a dismiss press on an alert that is already fading
\* out restarts the transition.
C18_FadeOutNeverRestarts ==
    [][ \A e \in DOMAIN alerts \cap DOMAIN alerts' :
          alerts[e].trans = "FadeOut" /\ alerts'[e].trans = "FadeOut" =>
              Progress(alerts'[e]) >= Progress(alerts[e]) ]_vars

\* C18, amended: while an alert is in FadeOut, no step lowers the completion
\* of its transition timer, except handle_dismiss_alert_buttons in a frame in
\* which the alert's dismiss button is Pressed, which removes the timer: the
\* FadeOut inserted again after the lifetime expired does not restart the
\* transition, a dismiss press does.
C18_FadeOutRestartsOnlyOnPress ==
    [][ \A e \in DOMAIN alerts \cap DOMAIN alerts' :
          alerts[e].trans = "FadeOut" /\ alerts'[e].trans = "FadeOut" =>
              IF pc = "handle_dismiss_alert_buttons" /\ Held(e)
              THEN alerts'[e].timer = NoVal
              ELSE Progress(alerts'[e]) >= Progress(alerts[e]) ]_vars

\* tick_active_alerts has just inserted FadeOut again on an alert that has
\* been fading out for 250ms: its timer still reads 250ms.
C18_Witness ==
    \E e \in DOMAIN alerts :
        /\ pc = "despawn_alert_root"
        /\ lifetime[alerts[e].marker] = 0
        /\ alerts[e].age = 500
        /\ ~alerts[e].pressed
        /\ alerts[e].trans = "FadeOut"
        /\ alerts[e].timer = 250

\* C19: pending alerts of a marker are promoted in the order in which they
\* were enqueued (entity ids are handed out in that order): a step that
\* promotes an alert leaves no alert of the marker pending that was enqueued
\* before it.
C19_PromotedInEnqueueOrder ==
    [][ \A e, f \in DOMAIN alerts :
          /\ f < e
          /\ alerts[f].marker = alerts[e].marker
          /\ ~alerts[f].ui /\ ~alerts[e].ui
          /\ e \in DOMAIN alerts' /\ alerts'[e].ui
          => f \in DOMAIN alerts' /\ alerts'[f].ui ]_vars

\* C20: when the fade-out of an alert of marker M has completed in
\* tick_transitions and alerts of M wait in the backlog, the run of
\* spawn_alerts of that same frame promotes at least one of them, and the
\* frame goes on with the display full or the backlog empty; the number of
\* displayed alerts exceeds MaxAlerts neither before nor after.
C20_FreedSlotRefilledSameFrame ==
    [][ \A m \in plugins :
          /\ Cardinality(Displayed(m)) <= max_alerts[m]
          /\ Cardinality(SpawnedAlerts(alerts', m)) <= max_alerts[m]
          /\ (/\ pc = "spawn_alerts"
              /\ \E o \in despawned : o.marker = m
              /\ Backlog(m) # {})
             => /\ \E e \in Backlog(m) : e \in DOMAIN alerts' /\ alerts'[e].ui
                /\ \/ AlertsToSpawn(alerts', m) = {}
                   \/ Cardinality(SpawnedAlerts(alerts', m)) = max_alerts[m]
          /\ (/\ pc' \in {"handle_alert_button_bgs", "handle_dismiss_alert_buttons"}
              /\ \E o \in despawned' : o.marker = m
              /\ AlertsToSpawn(alerts', m) # {})
             => Cardinality(SpawnedAlerts(alerts', m)) = max_alerts[m] ]_vars

\* In a display for two alerts one alert has completed its fade-out in this
\* frame and spawn_alerts has just promoted the waiting one into its slot,
\* next to the alert that stays.
C20_Witness ==
    \E m \in plugins :
        /\ pc = "handle_alert_button_bgs"
        /\ max_alerts[m] = 2
        /\ \E o \in despawned : o.marker = m
        /\ Cardinality(Displayed(m)) = 2
        /\ \E e \in Displayed(m) :
              alerts[e].trans = "FadeIn" /\ alerts[e].timer = NoVal
        /\ \E e \in Displayed(m) : alerts[e].age > 0

\* C21: the left offset of a displayed alert lies between 0 and 100 percent:
\* it is 100 when the alert is promoted, every value tick_transitions writes
\* during a FadeIn or a FadeOut (the last one before the despawn included)
\* is within that range, and it is 0 while the alert is Visible.
C21_LeftWithinZeroAndHundred ==
    /\ \A e \in DOMAIN alerts :
          alerts[e].ui =>
              /\ 0 <= alerts[e].left /\ alerts[e].left <= 100
              /\ alerts[e].trans = "None" => alerts[e].left = 0
    /\ \A o \in despawned : 0 <= o.left /\ o.left <= 100

============================================================================
